---- MODULE Spec2Model ----
(***************************************************************************)
(* Production-sheet ingestion backend (src/backend): status derivation     *)
(* (parser.py), the extraction records and stored documents (models.py),   *)
(* date parsing (utils.py) and the MongoDB store operations (database.py). *)
(***************************************************************************)
EXTENDS Integers, Sequences, FiniteSets, TLC

VARIABLES
    today,      \* datetime.now().date(), as <<year, month, day>>
    clock,      \* last value datetime.utcnow() returned
    store,      \* the production_items collection: a set of documents
    nextId,     \* next ObjectId the server assigns
    up,         \* per upload request: position and locals of upload_file/insert_items
    op,         \* per upload request: its update_one call, as the server sees it
    lastWrite,  \* history: per natural key, the item_dict of the update_one issued last
    log,        \* history: per finished sequential upload, its input and the store's content
    resp,       \* status derivation: the extraction record the service returned
    item,       \* status derivation: the ProductionItem built from resp
    files,      \* the temporary files on disk, by the upload that created them
    tally,      \* history: per upload, what the server did with its writes
    listing,    \* GET /api/production-items: the request being served and its reply
    flt,        \* one filter string put to one field value, and the outcome
    xl          \* read_excel_flexible: the sheet's top rows and the header row taken

vars == <<today, clock, store, nextId, up, op, lastWrite, log, resp, item,
          files, tally, listing, flt, xl>>

-----------------------------------------------------------------------------
(* Dates.  A date field of ProductionDates is Optional[str]: None, or a     *)
(* string.  A string is "", some text that is no date, or YYYY-MM-DD.       *)

DateStr(k, y, m, d) == [k |-> k, y |-> y, m |-> m, d |-> d]
NoneDate == DateStr("none", 0, 0, 0)
EmptyStr == DateStr("empty", 0, 0, 0)
BadText == DateStr("text", 0, 0, 0)
Iso(y, m, d) == DateStr("iso", y, m, d)

\* Python truthiness of an Optional[str]: None and "" are falsy.
Truthy(s) == s.k \notin {"none", "empty"}

\* What parse_date returns when it returns None.
NoParse == <<>>

\* dateutil's parse(s, dayfirst=True) on a YYYY-MM-DD string: the year is the
\* first token; of the two that remain, the last is taken as the month when it
\* is 12 or less, and the middle one as the day.
DayFirst(s) == IF s.d <= 12 THEN <<s.y, s.d, s.m>> ELSE <<s.y, s.m, s.d>>

parse_date(s) ==
    IF s.k = "none" \/ s.k = "empty" THEN NoParse
    ELSE IF s.k = "iso" THEN DayFirst(s)
    ELSE NoParse

\* format_date_iso: parse_date(s).strftime("%Y-%m-%d"), or None.
format_date_iso(s) ==
    LET parsed == parse_date(s)
    IN  IF parsed = NoParse THEN NoneDate ELSE Iso(parsed[1], parsed[2], parsed[3])

\* datetime.date comparison
DateLE(a, b) ==
    \/ a[1] < b[1]
    \/ a[1] = b[1] /\ a[2] < b[2]
    \/ a[1] = b[1] /\ a[2] = b[2] /\ a[3] <= b[3]
DateLT(a, b) == DateLE(a, b) /\ a # b

\* ProductionDates
DateFields ==
    {"shipping", "fabric", "cutting", "sewing", "embroidery", "size_set", "vap", "feeding"}
StageFields == DateFields \ {"shipping"}

-----------------------------------------------------------------------------
(* parser.derive_status *)

StatusValues == {"pending", "in_production", "completed", "delayed"}

\* The keys of `dates` whose value goes to completed_stages / future_stages.
completed_stages(dates) ==
    {f \in DOMAIN dates :
        /\ Truthy(dates[f])
        /\ parse_date(dates[f]) # NoParse
        /\ DateLE(parse_date(dates[f]), today)}
future_stages(dates) ==
    {f \in DOMAIN dates :
        /\ Truthy(dates[f])
        /\ parse_date(dates[f]) # NoParse
        /\ ~DateLE(parse_date(dates[f]), today)}

\* As ShippingPast, with the shipping date compared by <= instead of <.
ShippingPast_inclusive(shipping_date) ==
    /\ Truthy(shipping_date)
    /\ parse_date(shipping_date) # NoParse
    /\ DateLE(parse_date(shipping_date), today)

ShippingPast(shipping_date) ==
    /\ Truthy(shipping_date)
    /\ parse_date(shipping_date) # NoParse
    /\ DateLT(parse_date(shipping_date), today)

derive_status(dates, shipping_date) ==
    LET date_values == {f \in DOMAIN dates : Truthy(dates[f])}
        nc == Cardinality(completed_stages(dates))
        total_stages == nc + Cardinality(future_stages(dates))
    IN  IF date_values = {} THEN "pending"
        ELSE IF ShippingPast(shipping_date) /\ nc < total_stages THEN "delayed"
        ELSE IF total_stages > 0 /\ nc = total_stages THEN "completed"
        ELSE IF nc > 0 THEN "in_production"
        ELSE "pending"

-----------------------------------------------------------------------------
(* models.ProductionItemInput, models.ProductionItem and the item loop of   *)
(* parser.extract_production_items                                          *)

\* What the extraction service may send for one row: the schema's fields, and
\* possibly a "status" key of its own (NoStatus when it sends none).
NoStatus == "<none>"

\* Validation keeps the declared fields of ProductionItemInput; the model has
\* no status field.
ProductionItemInput(raw) ==
    [order_number |-> raw.order_number, style |-> raw.style, fabric |-> raw.fabric,
     color |-> raw.color, quantity |-> raw.quantity, dates |-> raw.dates,
     supplier |-> raw.supplier, required_weight |-> raw.required_weight]

\* item_dict['dates'] after model_dump(): all eight keys, 'shipping' among them.
dates_dict(item_data) == item_data.dates

\* As item_status, with only the stage dates handed to derive_status.
item_status_stage_only(item_data) ==
    derive_status([f \in StageFields |-> item_data.dates[f]], item_data.dates["shipping"])

\* item_dict['status'] = derive_status(dates_dict, dates_dict.get('shipping'))
item_status(item_data) ==
    derive_status(dates_dict(item_data), dates_dict(item_data)["shipping"])

\* ProductionItem(**item_dict): created_at and updated_at default to utcnow().
ProductionItem(item_data, filename, now) ==
    [order_number |-> item_data.order_number, style |-> item_data.style,
     fabric |-> item_data.fabric, color |-> item_data.color,
     quantity |-> item_data.quantity, status |-> item_status(item_data),
     dates |-> item_data.dates, supplier |-> item_data.supplier,
     required_weight |-> item_data.required_weight, source_file |-> filename,
     created_at |-> now, updated_at |-> now]

\* As ItemFromRaw, with a status the service sent kept in place of the derived one.
ItemFromRaw_trusting(raw, filename, now) ==
    LET it == ProductionItem(ProductionItemInput(raw), filename, now)
    IN  IF raw.status # NoStatus THEN [it EXCEPT !.status = raw.status] ELSE it

\* One pass of the loop over message.parsed.items: the validated record is
\* dumped, source_file and the derived status are added, and the
\* ProductionItem is built.
ItemFromRaw(raw, filename, now) == ProductionItem(ProductionItemInput(raw), filename, now)

\* The loop over message.parsed.items: one ProductionItem per extraction
\* record, each reading the clock when it is constructed.
extract_production_items(batch, filename, t0) ==
    [i \in 1..Len(batch) |-> ItemFromRaw(batch[i], filename, t0 + i)]

-----------------------------------------------------------------------------
(* The production_items collection and update_one(..., upsert=True)         *)

NaturalKey(d) == <<d.order_number, d.color>>

\* As order_color_unique, for an index created without unique=True.
order_color_not_unique(docs) == TRUE

\* The unique compound index order_color_unique on (order_number, color).
order_color_unique(docs) ==
    \A d1, d2 \in docs : NaturalKey(d1) = NaturalKey(d2) => d1 = d2

\* Documents matching the filter {"order_number": ..., "color": ...}.
Matching(docs, item_dict) == {d \in docs : NaturalKey(d) = NaturalKey(item_dict)}

\* As ApplySet, with the quantity added to the stored one ($inc for $set).
ApplySet_inc(doc, item_dict) ==
    [order_number |-> item_dict.order_number, style |-> item_dict.style,
     fabric |-> item_dict.fabric, color |-> item_dict.color,
     quantity |-> doc.quantity + item_dict.quantity, status |-> item_dict.status,
     dates |-> item_dict.dates, supplier |-> item_dict.supplier,
     required_weight |-> item_dict.required_weight,
     source_file |-> item_dict.source_file,
     created_at |-> item_dict.created_at, updated_at |-> item_dict.updated_at,
     id |-> doc.id]

\* {"$set": item_dict} on a document: every field item_dict carries is written,
\* created_at among them; _id stays.
ApplySet(doc, item_dict) ==
    [order_number |-> item_dict.order_number, style |-> item_dict.style,
     fabric |-> item_dict.fabric, color |-> item_dict.color,
     quantity |-> item_dict.quantity, status |-> item_dict.status,
     dates |-> item_dict.dates, supplier |-> item_dict.supplier,
     required_weight |-> item_dict.required_weight,
     source_file |-> item_dict.source_file,
     created_at |-> item_dict.created_at, updated_at |-> item_dict.updated_at,
     id |-> doc.id]

\* The document an upsert inserts: the filter's fields and the $set fields,
\* under a fresh ObjectId.
NewDoc(item_dict, oid) ==
    [order_number |-> item_dict.order_number, style |-> item_dict.style,
     fabric |-> item_dict.fabric, color |-> item_dict.color,
     quantity |-> item_dict.quantity, status |-> item_dict.status,
     dates |-> item_dict.dates, supplier |-> item_dict.supplier,
     required_weight |-> item_dict.required_weight,
     source_file |-> item_dict.source_file,
     created_at |-> item_dict.created_at, updated_at |-> item_dict.updated_at,
     id |-> oid]

\* item.model_dump() with item_dict['updated_at'] = datetime.utcnow()
ItemDict(it, now) == [it EXCEPT !.updated_at = now]

-----------------------------------------------------------------------------
(* Inputs of the store model *)

\* Longest extraction batch of one upload.
MaxBatch == 2

Uploads == {"u1", "u2"}

Today0 == <<2026, 3, 14>>

Dates(shipping, fabric, cutting) ==
    [f \in DateFields |->
        CASE f = "shipping" -> shipping
          [] f = "fabric" -> fabric
          [] f = "cutting" -> cutting
          [] OTHER -> NoneDate]

Raw(order_number, color, quantity, dates, status) ==
    [order_number |-> order_number, style |-> "STYLE-ABC-1", fabric |-> "Cotton 100%",
     color |-> color, quantity |-> quantity, dates |-> dates, supplier |-> "None",
     required_weight |-> "None", status |-> status]

\* Extraction records the service returns in the store model: two rows of the
\* same order and colour with different content, and one of another colour.
RawItems ==
    { Raw("IO-1", "Blue", 100, Dates(Iso(2099, 1, 1), Iso(2020, 1, 1), NoneDate), NoStatus),
      Raw("IO-1", "Blue", 250, Dates(Iso(2020, 1, 13), NoneDate, NoneDate), "shipped"),
      Raw("IO-1", "Red", 100, Dates(NoneDate, Iso(2020, 1, 1), Iso(2026, 3, 15)), NoStatus) }

\* Sequences of at most n distinct elements of S, the empty one included.
RECURSIVE SeqsUpTo(_, _)
SeqsUpTo(S, n) ==
    IF n = 0 THEN {<<>>}
    ELSE LET shorter == SeqsUpTo(S, n - 1)
         IN  shorter \cup
             {Append(q, x) : <<q, x>> \in
                 {qx \in shorter \X S : \A i \in 1..Len(qx[1]) : qx[1][i] # qx[2]}}

\* The batches an upload may carry: one to MaxBatch different rows, in any order.
Batches == SeqsUpTo(RawItems, MaxBatch) \ {<<>>}

Filenames == {"tna-uno.xlsx"}

-----------------------------------------------------------------------------
(* upload_file -> parse_production_sheet -> insert_items, and the server    *)

Idle == [pc |-> "idle", items |-> <<>>, inserted_count |-> 0]
NoOp == [phase |-> "none"]

Init ==
    /\ today = Today0
    /\ clock = 0
    /\ store = {}
    /\ nextId = 1
    /\ up = [u \in Uploads |-> Idle]
    /\ op = [u \in Uploads |-> NoOp]
    /\ lastWrite = <<>>
    /\ log = <<>>
    /\ resp = <<>>
    /\ files = {}
    /\ tally = <<>>
    /\ listing = <<>>
    /\ flt = <<>>
    /\ xl = <<>>
    /\ item = <<>>

\* One pass of the loop of insert_items up to its await: the timestamp is read
\* and update_one is handed to the driver.
Issue(u, items, count) ==
    LET item_dict == ItemDict(Head(items), clock' )
    IN  /\ up' = [up EXCEPT ![u] = [pc |-> "await", items |-> Tail(items),
                                    inserted_count |-> count]]
        /\ op' = [op EXCEPT ![u] = [phase |-> "sent", item_dict |-> item_dict]]

\* upload_file up to the first await of insert_items: the sheet is parsed, the
\* ProductionItems are built, and the first update_one is issued.
ParseAndIssue(u, filename, batch) ==
    /\ clock' = clock + Len(batch) + 1
    /\ Issue(u, extract_production_items(batch, filename, clock), 0)
    /\ UNCHANGED <<today, store, nextId, resp, item>>

\* The whole of it in one step, for a request whose bytes arrive and whose
\* sheet is read.
StartUpload(u, filename, batch) ==
    /\ up[u].pc = "idle"
    /\ ParseAndIssue(u, filename, batch)

\* The server runs the update's query.  A matching document is updated in
\* place; with none, the operation goes on to insert.
ServerMatch(u) ==
    /\ op[u].phase = "sent"
    /\ LET found == Matching(store, op[u].item_dict)
       IN  IF found = {}
           THEN /\ op' = [op EXCEPT ![u].phase = "inserting"]
                /\ store' = store
           ELSE \E doc \in found :
                  LET new == ApplySet(doc, op[u].item_dict)
                  IN  /\ store' = (store \ {doc}) \cup {new}
                      /\ op' = [op EXCEPT ![u] =
                                 [phase |-> "replied", error |-> FALSE, upserted |-> FALSE,
                                  modified_count |-> IF new = doc THEN 0 ELSE 1]]
    /\ UNCHANGED <<today, clock, nextId, up, resp, item>>

\* The insert of an upsert that matched nothing: the unique index admits it.
ServerInsert(u) ==
    /\ op[u].phase = "inserting"
    /\ LET new == NewDoc(op[u].item_dict, nextId)
       IN  /\ order_color_unique(store \cup {new})
           /\ store' = store \cup {new}
           /\ nextId' = nextId + 1
           /\ op' = [op EXCEPT ![u] =
                      [phase |-> "replied", error |-> FALSE, upserted |-> TRUE,
                       modified_count |-> 0]]
    /\ UNCHANGED <<today, clock, up, resp, item>>

\* The insert of an upsert that matched nothing, after another insert of the
\* same key got in first: the unique index refuses it.  The server either
\* runs the upsert again, or reports DuplicateKeyError.
ServerDuplicate(u) ==
    /\ op[u].phase = "inserting"
    /\ ~order_color_unique(store \cup {NewDoc(op[u].item_dict, nextId)})
    /\ \/ op' = [op EXCEPT ![u].phase = "sent"]
       \/ op' = [op EXCEPT ![u] =
                  [phase |-> "replied", error |-> TRUE, upserted |-> FALSE,
                   modified_count |-> 0]]
    /\ UNCHANGED <<today, clock, store, nextId, up, resp, item>>

\* As counted, for a loop that counted every record it got a reply for.
counted_any(result) == TRUE

\* if result.upserted_id or result.modified_count: inserted_count += 1, which
\* a write that raised does not reach.
counted(result) == ~result.error /\ (result.upserted \/ result.modified_count > 0)

\* As on_write_error, for a loop without the two except clauses.
on_write_error_raise(result) == "raise"

\* except DuplicateKeyError: ... continue / except Exception: ... continue
on_write_error(result) == "continue"

\* insert_items after its await: the result is counted (a DuplicateKeyError is
\* logged and skipped), and the loop issues the next item's update or returns.
Resume(u) ==
    /\ up[u].pc = "await"
    /\ op[u].phase = "replied"
    /\ LET count == up[u].inserted_count + (IF counted(op[u]) THEN 1 ELSE 0)
       IN  IF op[u].error /\ on_write_error(op[u]) = "raise"
           THEN /\ up' = [up EXCEPT ![u] = [pc |-> "raised", items |-> <<>>,
                                            inserted_count |-> count]]
                /\ op' = [op EXCEPT ![u] = NoOp]
                /\ UNCHANGED clock
           ELSE IF up[u].items # <<>>
           THEN /\ clock' = clock + 1
                /\ Issue(u, up[u].items, count)
           ELSE /\ up' = [up EXCEPT ![u] = [pc |-> "done", items |-> <<>>,
                                            inserted_count |-> count]]
                /\ op' = [op EXCEPT ![u] = NoOp]
                /\ UNCHANGED clock
    /\ UNCHANGED <<today, store, nextId, resp, item>>

\* delete_item(item_id): delete_one({"_id": ObjectId(item_id)})
delete_item(item_id) ==
    /\ store' = {d \in store : d.id # item_id}
    /\ UNCHANGED <<today, clock, nextId, up, op, resp, item>>

\* The history variables are written by the specifications that read them.
NoHistory == UNCHANGED <<lastWrite, log>>

\* The state of the handlers and functions a specification leaves out.
Others == UNCHANGED <<files, tally, listing, flt, xl>>

Next ==
    \/ \E u \in Uploads, f \in Filenames, b \in Batches : StartUpload(u, f, b) /\ NoHistory /\ Others
    \/ \E u \in Uploads : ServerMatch(u) /\ NoHistory /\ Others
    \/ \E u \in Uploads : ServerInsert(u) /\ NoHistory /\ Others
    \/ \E u \in Uploads : ServerDuplicate(u) /\ NoHistory /\ Others
    \/ \E u \in Uploads : Resume(u) /\ NoHistory /\ Others
    \/ \E id \in 1..(nextId - 1) : delete_item(id) /\ NoHistory /\ Others

Spec == Init /\ [][Next]_vars

-----------------------------------------------------------------------------
(* Concurrent uploads, with the order in which the updates were issued      *)

\* lastWrite follows the update_one calls as insert_items issues them.
TrackIssue(u) ==
    IF op'[u].phase = "sent"
    THEN lastWrite' = (NaturalKey(op'[u].item_dict) :> op'[u].item_dict) @@ lastWrite
    ELSE lastWrite' = lastWrite

NextRace ==
    \/ \E u \in Uploads, f \in Filenames, b \in Batches :
          StartUpload(u, f, b) /\ TrackIssue(u) /\ UNCHANGED log /\ Others
    \/ \E u \in Uploads : ServerMatch(u) /\ NoHistory /\ Others
    \/ \E u \in Uploads : ServerInsert(u) /\ NoHistory /\ Others
    \/ \E u \in Uploads : ServerDuplicate(u) /\ NoHistory /\ Others
    \/ \E u \in Uploads : Resume(u) /\ TrackIssue(u) /\ UNCHANGED log /\ Others

SpecRace == Init /\ [][NextRace]_vars

-----------------------------------------------------------------------------
(* One upload after another: the same sheet ingested again                  *)

\* Ingestions in a row.
MaxIngest == 2

\* Midnights that pass while the service runs.
MaxDayPasses == 1

\* The content fields of a stored document: all but _id and the timestamps.
Content(d) ==
    [order_number |-> d.order_number, style |-> d.style, fabric |-> d.fabric,
     color |-> d.color, quantity |-> d.quantity, status |-> d.status,
     dates |-> d.dates, supplier |-> d.supplier,
     required_weight |-> d.required_weight, source_file |-> d.source_file]

Running == \E u \in Uploads : up[u].pc = "await"

\* log keeps the last two ingestions, numbered from 1.
Ingested == IF log = <<>> THEN 0 ELSE log[Len(log)].n
Logged(entry) == IF Len(log) = 2 THEN <<log[2], entry>> ELSE Append(log, entry)

SeqStart(u, filename, batch) ==
    /\ ~Running
    /\ Ingested < MaxIngest
    /\ StartUpload(u, filename, batch)
    /\ log' = Logged([n |-> Ingested + 1, filename |-> filename, batch |-> batch,
                      today |-> today, finished |-> FALSE, count |-> 0, content |-> {}])
    /\ UNCHANGED lastWrite

SeqResume(u) ==
    /\ Resume(u)
    /\ log' = IF up'[u].pc = "done"
              THEN [log EXCEPT ![Len(log)] =
                      [@ EXCEPT !.finished = TRUE, !.count = Cardinality(store),
                                !.content = {Content(d) : d \in store}]]
              ELSE log
    /\ UNCHANGED lastWrite

\* The handler has returned; the next request is served.
NextRequest(u) ==
    /\ up[u].pc = "done"
    /\ up' = [up EXCEPT ![u] = Idle]
    /\ UNCHANGED <<today, clock, store, nextId, op, lastWrite, log, resp, item>>

\* datetime.now().date() moves on at midnight.
DayPasses ==
    /\ today[3] < Today0[3] + MaxDayPasses
    /\ today' = <<today[1], today[2], today[3] + 1>>
    /\ UNCHANGED <<clock, store, nextId, up, op, lastWrite, log, resp, item>>

\* One request at a time: a single request slot serves them all.
NextReingest ==
    \/ \E f \in Filenames, b \in Batches : SeqStart("u1", f, b) /\ Others
    \/ ServerMatch("u1") /\ NoHistory /\ Others
    \/ ServerInsert("u1") /\ NoHistory /\ Others
    \/ SeqResume("u1") /\ Others
    \/ NextRequest("u1") /\ Others
    \/ DayPasses /\ Others

SpecReingest == Init /\ [][NextReingest]_vars

-----------------------------------------------------------------------------
(* Status derivation: one extraction record through the item loop           *)

\* Most date fields an extraction record fills in.
MaxRecorded == 3

\* What the service may put in a date field besides None: "", text that is no
\* date, and dates before, on and after Today0.  2026-01-04 is read day-first.
DateValues ==
    {EmptyStr, BadText, Iso(2020, 1, 1), Iso(2026, 3, 14), Iso(2099, 1, 1), Iso(2026, 1, 4)}

\* The ProductionDates object with the fields of g filled in and the rest None.
DatesOver(g) == [f \in DateFields |-> IF f \in DOMAIN g THEN g[f] ELSE NoneDate]

\* The service returns one extraction record.
Respond(dates) ==
    /\ resp = <<>>
    /\ resp' = Raw("IO-1", "Blue", 100, dates, NoStatus)
    /\ UNCHANGED <<today, clock, store, nextId, up, op, lastWrite, log, item>>

\* The item loop builds its ProductionItem.  The clock is read and left as it is.
ExtractItem(filename) ==
    /\ resp # <<>>
    /\ item = <<>>
    /\ item' = ItemFromRaw(resp, filename, clock + 1)
    /\ UNCHANGED <<today, clock, store, nextId, up, op, lastWrite, log, resp>>

\* On to the next row.
NextRow ==
    /\ item # <<>>
    /\ resp' = <<>>
    /\ item' = <<>>
    /\ UNCHANGED <<today, clock, store, nextId, up, op, lastWrite, log>>

NextStatus ==
    \/ /\ resp = <<>>
       /\ \E fields \in SUBSET DateFields :
             /\ Cardinality(fields) <= MaxRecorded
             /\ \E g \in [fields -> DateValues] : Respond(DatesOver(g))
       /\ Others
    \/ \E f \in Filenames : ExtractItem(f) /\ Others
    \/ NextRow /\ Others

SpecStatus == Init /\ [][NextStatus]_vars

-----------------------------------------------------------------------------
(* Properties of the store, under Spec *)

\* C1: in every reachable state there is at most one stored document per
\* (order_number, color), whatever the batches, their interleaving and the deletes.
C1_NaturalKeyUnique ==
    \A d1, d2 \in store :
        (d1.order_number = d2.order_number /\ d1.color = d2.color) => d1.id = d2.id

\* An upsert that matched nothing is about to insert, and the key is stored by now.
C1_RaceWitness ==
    \E u \in Uploads :
        /\ op[u].phase = "inserting"
        /\ \E d \in store : NaturalKey(d) = NaturalKey(op[u].item_dict)

\* C2: a write to a stored document leaves its created_at as it was.
C2_CreatedAtPreserved ==
    [][\A d \in store : \A e \in store' : d.id = e.id => e.created_at = d.created_at]_vars

\* C4: the updated_at stored under a natural key never decreases.
C4_UpdatedAtMonotonic ==
    [][\A d \in store : \A e \in store' :
          NaturalKey(d) = NaturalKey(e) => e.updated_at >= d.updated_at]_vars

StatusIsDerived(d) ==
    /\ d.status \in StatusValues
    /\ d.status = derive_status(d.dates, d.dates["shipping"])

\* C10: every ProductionItem the pipeline built, in a batch, in a write or in
\* the store, carries one of the four status values, the one derive_status
\* gives for its own dates.
C10_StatusDerived ==
    /\ \A d \in store : StatusIsDerived(d)
    /\ \A u \in Uploads :
          /\ \A i \in 1..Len(up[u].items) : StatusIsDerived(up[u].items[i])
          /\ op[u].phase \in {"sent", "inserting"} => StatusIsDerived(op[u].item_dict)

\* A row for which the service sent a status of its own is stored.
C10_ServiceStatusWitness ==
    \E d \in store : \E r \in RawItems :
        /\ r.status # NoStatus
        /\ NaturalKey(r) = NaturalKey(d)
        /\ r.quantity = d.quantity
        /\ r.dates = d.dates

-----------------------------------------------------------------------------
(* Last writer wins, under SpecRace *)

Quiescent == \A u \in Uploads : up[u].pc # "await"

\* C5: once the uploads have returned, each key written holds exactly one
\* document, with the content of the update issued last for it.
C5_LastWriterWins ==
    Quiescent =>
        \A k \in DOMAIN lastWrite :
            /\ Cardinality({d \in store : NaturalKey(d) = k}) = 1
            /\ \A d \in store : NaturalKey(d) = k => Content(d) = Content(lastWrite[k])

-----------------------------------------------------------------------------
(* Ingesting the same sheet again, under SpecReingest *)

\* The last two ingestions read the same batch from the same file, and both
\* have returned.
Reingested ==
    /\ Len(log) = 2
    /\ log[2].finished
    /\ log[1].batch = log[2].batch
    /\ log[1].filename = log[2].filename

WithoutStatus(contents) == {[c EXCEPT !.status = "-"] : c \in contents}

\* C3 as stated: the second ingestion leaves the record count and every
\* content field as the first left them.
C3_ReingestSameContent ==
    Reingested => log[2].count = log[1].count /\ log[2].content = log[1].content

\* C3 amended: the record count and every content field but status are as the
\* first ingestion left them, and status too when both ran on the same day.
C3_ReingestSameContentSameDay ==
    Reingested =>
        /\ log[2].count = log[1].count
        /\ WithoutStatus(log[2].content) = WithoutStatus(log[1].content)
        /\ log[1].today = log[2].today => log[2].content = log[1].content

\* A batch of several rows was ingested twice on the same day.
C3_ReingestWitness ==
    /\ Reingested
    /\ log[1].today = log[2].today
    /\ Len(log[2].batch) > 1
    /\ log[2].count > 0

-----------------------------------------------------------------------------
(* Properties of the derived status, under SpecStatus.  A date counts as      *)
(* elapsed, future or before today as parse_date reads it.                   *)

Parsed(s) == parse_date(s) # NoParse
StageElapsed(dates) == {f \in StageFields : Parsed(dates[f]) /\ DateLE(parse_date(dates[f]), today)}
StageFuture(dates) == {f \in StageFields : Parsed(dates[f]) /\ ~DateLE(parse_date(dates[f]), today)}
ShipBefore(dates) == Parsed(dates["shipping"]) /\ DateLT(parse_date(dates["shipping"]), today)
ShipAfter(dates) == Parsed(dates["shipping"]) /\ ~DateLE(parse_date(dates["shipping"]), today)

\* The six steps of the status algorithm, the shipping date not among the
\* stage dates.
SixStep(dates) ==
    LET elapsed == Cardinality(StageElapsed(dates))
        total == elapsed + Cardinality(StageFuture(dates))
    IN  IF total = 0 THEN "pending"
        ELSE IF ShipBefore(dates) /\ elapsed < total THEN "delayed"
        ELSE IF total > 0 /\ elapsed = total THEN "completed"
        ELSE IF elapsed > 0 THEN "in_production"
        ELSE "pending"

\* C6: the status of every ProductionItem is the one the six steps give.
C6_SixStepStatus == item # <<>> => item.status = SixStep(item.dates)

\* C7: an item with a shipping date and no stage date at all is pending.
C7_NoStageDatePending ==
    (/\ item # <<>>
     /\ \A f \in StageFields : item.dates[f] = NoneDate
     /\ item.dates["shipping"].k = "iso") => item.status = "pending"

-----------------------------------------------------------------------------
(* The filters of get_items and get_total_count                             *)
(* Strings are sequences of characters.                                     *)

\* Longest filter string, and longest field value a filter is put to.
MaxFilterLen == 2
MaxValueLen == 2

\* Characters of a filter string: '.', '*' and '(' are regular-expression syntax.
FilterChars == {"a", "B", ".", "*", "("}

\* Characters of a stored style or order number.
ValueChars == {"a", "A", "b", "."}

\* The strings of at most n characters of C.
Strings(C, n) == UNION {[1..k -> C] : k \in 0..n}

\* Option "i": letters compare without regard to case.
Lower(c) == CASE c = "A" -> "a" [] c = "B" -> "b" [] OTHER -> c

\* The server compiles the filter string as a regular expression: an open
\* group is never closed here, and '*' needs an item to repeat.
ValidRegex(p) ==
    \A k \in 1..Len(p) :
        /\ p[k] # "("
        /\ p[k] = "*" => (k > 1 /\ p[k - 1] # "*")

\* The pattern from position k on matches s from position i on.
RECURSIVE MatchAt(_, _, _, _)
MatchAt(p, k, s, i) ==
    IF k > Len(p) THEN TRUE
    ELSE LET hit == i <= Len(s) /\ (p[k] = "." \/ Lower(p[k]) = Lower(s[i]))
         IN  IF k < Len(p) /\ p[k + 1] = "*"
             THEN MatchAt(p, k + 2, s, i) \/ (hit /\ MatchAt(p, k, s, i + 1))
             ELSE hit /\ MatchAt(p, k + 1, s, i + 1)

\* {"$regex": p, "$options": "i"} put to the value s: an unanchored search.
regex_search(p, s) ==
    IF ~ValidRegex(p) THEN "error"
    ELSE IF \E i \in 1..(Len(s) + 1) : MatchAt(p, 1, s, i) THEN "match"
    ELSE "no match"

\* if style: query["style"] = {"$regex": style, "$options": "i"}; the same
\* for order_number.  An empty filter adds no condition.
regex_filter(f, value) == IF f = <<>> THEN "match" ELSE regex_search(f, value)

\* if status: query["status"] = status
NoFilter == ""
status_filter(f, value) ==
    IF f = NoFilter THEN "match" ELSE IF value = f THEN "match" ELSE "no match"

RegexFields == {"style", "order_number"}

\* Status filters: the values of the field, in another case too.
StatusFilters == StatusValues \cup {NoFilter, "Shipped"}

\* One filter of the query is put to one document's field.
PutFilter(field, f, value) ==
    /\ flt = <<>>
    /\ flt' = [field |-> field, filter |-> f, value |-> value,
               outcome |-> IF field = "status" THEN status_filter(f, value)
                           ELSE regex_filter(f, value)]
    /\ UNCHANGED <<today, clock, store, nextId, up, op, lastWrite, log, resp, item,
                   files, tally, listing, xl>>

NextFilterTest ==
    /\ flt # <<>>
    /\ flt' = <<>>
    /\ UNCHANGED <<today, clock, store, nextId, up, op, lastWrite, log, resp, item,
                   files, tally, listing, xl>>

NextFilter ==
    \/ /\ flt = <<>>
       /\ \E field \in RegexFields, f \in Strings(FilterChars, MaxFilterLen),
             value \in Strings(ValueChars, MaxValueLen) : PutFilter(field, f, value)
    \/ /\ flt = <<>>
       /\ \E f \in StatusFilters, value \in StatusValues : PutFilter("status", f, value)
    \/ NextFilterTest

SpecFilter == Init /\ [][NextFilter]_vars

\* value contains f, letters compared without regard to case.
ContainsCI(value, f) ==
    \E i \in 0..(Len(value) - Len(f)) :
        \A j \in 1..Len(f) : Lower(value[i + j]) = Lower(f[j])

\* C11: a style or order-number filter passes exactly the values that contain
\* the filter string as a case-insensitive substring, whatever characters the
\* filter holds, and a status filter passes exactly the equal status.
C11_FilterIsSubstring ==
    flt # <<>> =>
        flt.outcome = IF flt.field = "status"
                      THEN (IF flt.filter = NoFilter \/ flt.value = flt.filter
                            THEN "match" ELSE "no match")
                      ELSE (IF ContainsCI(flt.value, flt.filter)
                            THEN "match" ELSE "no match")

-----------------------------------------------------------------------------
(* get_production_items -> get_items, get_total_count, get_status_counts    *)

\* One-row uploads that fill the store before and while listings are served.
MaxQueryIngest == 3

\* Largest skip and limit of a listing request, the over-the-cap limit aside.
MaxSkip == 2
MaxLimit == 2

\* if limit > 1000: limit = 1000
LimitCap == 1000

QueryRow(order_number, style, color, quantity, dates) ==
    [Raw(order_number, color, quantity, dates, NoStatus) EXCEPT !.style = style]

\* The rows of the listing model: three natural keys, two statuses, and one
\* quantity below zero, which is an int as the extraction schema asks.
QueryRows ==
    { QueryRow(<<"a">>, <<"a", "b">>, "Blue", 100,
               Dates(Iso(2099, 1, 1), Iso(2020, 1, 1), NoneDate)),
      QueryRow(<<"a">>, <<"A">>, "Red", 0 - 5, Dates(NoneDate, NoneDate, NoneDate)),
      QueryRow(<<"b">>, <<"b">>, "Blue", 100,
               Dates(Iso(2099, 1, 1), Iso(2020, 1, 1), NoneDate)) }

\* The filters of the listing requests; "(" is no regular expression.
ListStyles == {<<>>, <<"a">>, <<"(">>}
ListStatuses == {NoFilter, "in_production"}
Skips == (0 - 1)..MaxSkip
Limits == (0..MaxLimit) \cup {LimitCap + 1}

\* The query document built from the filters fails on the server when a
\* $regex does not compile.
QueryFails(style, order_number) ==
    \/ regex_filter(style, <<>>) = "error"
    \/ regex_filter(order_number, <<>>) = "error"

\* collection.find(query) / count_documents(query): the documents that pass.
find(docs, style, status, order_number) ==
    {d \in docs :
        /\ regex_filter(style, d.style) = "match"
        /\ status_filter(status, d.status) = "match"
        /\ regex_filter(order_number, d.order_number) = "match"}

\* The documents of S as a sequence, newest created_at first (before = ">")
\* or in the order of their insertion (before = "natural").
RECURSIVE Ordered(_, _)
Ordered(S, before) ==
    IF S = {} THEN <<>>
    ELSE LET first == IF before = "natural"
                      THEN CHOOSE d \in S : \A e \in S : d.id <= e.id
                      ELSE CHOOSE d \in S : \A e \in S : d.created_at >= e.created_at
         IN  <<first>> \o Ordered(S \ {first}, before)

Drop(sq, n) == SubSeq(sq, n + 1, Len(sq))
Take(sq, n) == SubSeq(sq, 1, IF n < Len(sq) THEN n ELSE Len(sq))

\* As run_cursor, for a server that applied skip, limit and sort in the
\* order the calls are chained.
run_cursor_as_chained(S, skip, limit) ==
    LET page == Take(Drop(Ordered(S, "natural"), skip), limit)
    IN  Ordered({page[i] : i \in 1..Len(page)}, ">")

\* find(query).skip(skip).limit(limit).sort("created_at", -1): the calls set
\* options of one cursor, and the server sorts, then skips, then limits;
\* limit(0) is no limit.
run_cursor(S, skip, limit) ==
    LET skipped == Drop(Ordered(S, ">"), skip)
    IN  IF limit = 0 THEN skipped ELSE Take(skipped, limit)

\* get_items: await cursor.to_list(length=limit).  A query that fails raises.
get_items(docs, skip, limit, style, status, order_number) ==
    IF QueryFails(style, order_number) THEN "raise"
    ELSE Take(run_cursor(find(docs, style, status, order_number), skip, limit), limit)

\* As get_total_count, counting with an empty query.
get_total_count_all(docs, style, status, order_number) == Cardinality(docs)

\* get_total_count: count_documents(query)
get_total_count(docs, style, status, order_number) ==
    IF QueryFails(style, order_number) THEN "raise"
    ELSE Cardinality(find(docs, style, status, order_number))

\* get_status_counts: $group by status, as a dict.
get_status_counts(docs) ==
    [st \in {d.status : d \in docs} |-> Cardinality({d \in docs : d.status = st})]

ListingVars == <<today, clock, store, nextId, up, op, lastWrite, log, resp, item,
                 files, tally, flt, xl>>

\* The handler up to `await get_items(...)`: limit and skip are clamped.
\* except Exception: HTTP 500.
ListItems(skip, limit, style, status) ==
    LET lim == IF limit > LimitCap THEN LimitCap ELSE limit
        sk == IF skip < 0 THEN 0 ELSE skip
        items == get_items(store, sk, lim, style, status, <<>>)
    IN  /\ listing = <<>>
        /\ listing' = IF QueryFails(style, <<>>)
                      THEN [pc |-> "returned", code |-> 500]
                      ELSE [pc |-> "items", skip |-> sk, limit |-> lim, style |-> style,
                            status |-> status, items |-> items]
        /\ UNCHANGED ListingVars

\* await get_total_count(db, style=style, status=status)
ListCount ==
    /\ listing # <<>>
    /\ listing.pc = "items"
    /\ listing' = [pc |-> "counted", skip |-> listing.skip, limit |-> listing.limit,
                   style |-> listing.style, status |-> listing.status,
                   items |-> listing.items,
                   total |-> get_total_count(store, listing.style, listing.status, <<>>)]
    /\ UNCHANGED ListingVars

\* await get_status_counts(db), and the response.
ListStatusCounts ==
    /\ listing # <<>>
    /\ listing.pc = "counted"
    /\ listing' = [pc |-> "returned", code |-> 200, skip |-> listing.skip,
                   limit |-> listing.limit, items |-> listing.items,
                   total |-> listing.total, status_counts |-> get_status_counts(store)]
    /\ UNCHANGED ListingVars

\* The next listing request.
ListNext ==
    /\ listing # <<>>
    /\ listing.pc = "returned"
    /\ listing' = <<>>
    /\ UNCHANGED ListingVars

NoListing == UNCHANGED <<lastWrite, log, files, tally, listing, flt, xl>>

NextQuery ==
    \/ /\ clock < 2 * MaxQueryIngest
       /\ \E f \in Filenames, r \in QueryRows : StartUpload("u1", f, <<r>>) /\ NoListing
    \/ ServerMatch("u1") /\ NoListing
    \/ ServerInsert("u1") /\ NoListing
    \/ Resume("u1") /\ NoListing
    \/ NextRequest("u1") /\ UNCHANGED <<files, tally, listing, flt, xl>>
    \/ /\ listing = <<>>
       /\ \E skip \in Skips, limit \in Limits, style \in ListStyles,
             status \in ListStatuses : ListItems(skip, limit, style, status)
    \/ ListCount
    \/ ListStatusCounts
    \/ ListNext

SpecQuery == Init /\ [][NextQuery]_vars

\* Documents of F newer than d.
Newer(F, d) == {e \in F : e.created_at > d.created_at}

\* The handler has just got its items from get_items.
GotItems == listing = <<>> /\ listing' # <<>> /\ listing'.pc = "items"

\* C12: get_items returns the slice [skip, skip + limit) of the filtered
\* documents in descending created_at order: position i of the result holds
\* the matching document with skip + i - 1 newer matching documents, and the
\* result has min(limit, matching - skip) documents, or none.
C12_PageIsSlice ==
    [][GotItems =>
         LET F == find(store, listing'.style, listing'.status, <<>>)
             page == listing'.items
             left == Cardinality(F) - listing'.skip
         IN  /\ \A i \in 1..Len(page) :
                   /\ page[i] \in F
                   /\ Cardinality(Newer(F, page[i])) = listing'.skip + i - 1
             /\ Len(page) = IF left <= 0 THEN 0
                            ELSE IF listing'.limit < left THEN listing'.limit ELSE left]_vars

\* A page of one document that is neither the newest nor the oldest of three.
C12_PageWitness ==
    /\ listing # <<>>
    /\ listing.pc = "items"
    /\ listing.skip = 1
    /\ listing.limit = 1
    /\ Len(listing.items) = 1
    /\ Cardinality(find(store, listing.style, listing.status, <<>>)) = 3
    /\ listing.items[1] \in store

\* The handler has just got its total from get_total_count.
GotTotal == listing # <<>> /\ listing.pc = "items" /\ listing'.pc = "counted"

\* C13: the total get_total_count returns for the request's filters is the
\* number of documents get_items returns for the same filters with skip 0 and
\* the largest limit, whatever skip and limit the request carries.
C13_TotalIsUnpagedCount ==
    [][GotTotal =>
         listing'.total =
             Len(get_items(store, 0, LimitCap, listing.style, listing.status, <<>>))]_vars

\* A filtered listing whose page is shorter than its total, which is smaller
\* than the store.
C13_TotalWitness ==
    /\ listing # <<>>
    /\ listing.pc = "counted"
    /\ listing.skip > 0
    /\ listing.status # NoFilter
    /\ Len(listing.items) < listing.total
    /\ listing.total < Cardinality(store)
    /\ listing.total = Cardinality(find(store, listing.style, listing.status, <<>>))

-----------------------------------------------------------------------------
(* insert_items: what it counts, and what a failed write does to the loop   *)

\* Longest batch of the counting model.
MaxCountBatch == 2

CountBatches == SeqsUpTo(RawItems, MaxCountBatch) \ {<<>>}

\* tally[u]: the size of u's batch, and how the server answered its writes:
\* inserted, updated (the stored document changed), of those material (a
\* content field changed), same (nothing changed), failed; late counts the
\* answers after a failure, keys the natural keys written.
NoTally == [size |-> 0, inserted |-> 0, updated |-> 0, material |-> 0, same |-> 0,
            failed |-> 0, late |-> 0, keys |-> {}]

TallyStart(u, batch) ==
    tally' = [v \in Uploads |->
                 IF v = u THEN [NoTally EXCEPT !.size = Len(batch)]
                 ELSE IF v \in DOMAIN tally THEN tally[v] ELSE NoTally]

\* The driver raises another error for the update: the connection is lost
\* before the server has applied anything.
ServerFails(u) ==
    /\ op[u].phase = "sent"
    /\ op' = [op EXCEPT ![u] =
               [phase |-> "replied", error |-> TRUE, upserted |-> FALSE,
                modified_count |-> 0]]
    /\ UNCHANGED <<today, clock, store, nextId, up, resp, item>>

\* The server's step on u's write, entered in tally[u] when it is an answer.
TallyReply(u) ==
    LET key == NaturalKey(op[u].item_dict)
        before == {d \in store : NaturalKey(d) = key}
        after == {d \in store' : NaturalKey(d) = key}
        t == tally[u]
        answered == [t EXCEPT !.late = IF t.failed > 0 THEN @ + 1 ELSE @]
    IN  tally' =
          IF op'[u].phase # "replied" THEN tally
          ELSE [tally EXCEPT ![u] =
                 IF op'[u].error THEN [answered EXCEPT !.failed = @ + 1]
                 ELSE IF before = {}
                 THEN [answered EXCEPT !.inserted = @ + 1, !.keys = @ \cup {key}]
                 ELSE IF after = before THEN [answered EXCEPT !.same = @ + 1]
                 ELSE [answered EXCEPT
                         !.updated = @ + 1,
                         !.material = IF {Content(d) : d \in after} =
                                         {Content(d) : d \in before} THEN @ ELSE @ + 1,
                         !.keys = @ \cup {key}]]

NoCount == UNCHANGED <<lastWrite, log, files, listing, flt, xl>>

NextCount ==
    \/ \E u \in Uploads, f \in Filenames, b \in CountBatches :
          StartUpload(u, f, b) /\ TallyStart(u, b) /\ NoCount
    \/ \E u \in Uploads : ServerMatch(u) /\ TallyReply(u) /\ NoCount
    \/ \E u \in Uploads : ServerInsert(u) /\ TallyReply(u) /\ NoCount
    \/ \E u \in Uploads : ServerDuplicate(u) /\ TallyReply(u) /\ NoCount
    \/ \E u \in Uploads : ServerFails(u) /\ TallyReply(u) /\ NoCount
    \/ \E u \in Uploads : Resume(u) /\ UNCHANGED tally /\ NoCount

SpecCount == Init /\ [][NextCount]_vars

\* insert_items of upload u has returned.
Returned(u) == up[u].pc = "done" /\ u \in DOMAIN tally

\* C14, as claimed: the count insert_items returns is the number of its
\* records whose write inserted a document or changed a content field of the
\* stored one, and is at most the batch size.
C14_CountsMaterialChanges ==
    \A u \in Uploads :
        Returned(u) =>
            /\ up[u].inserted_count = tally[u].inserted + tally[u].material
            /\ up[u].inserted_count <= tally[u].size

\* C14, amended: the count insert_items returns is the number of its records
\* whose write inserted a document or changed the stored one in any field, the
\* timestamps included; a failed write is not counted, and the count is at
\* most the batch size.
C14_CountsEveryChange ==
    \A u \in Uploads :
        Returned(u) =>
            /\ up[u].inserted_count = tally[u].inserted + tally[u].updated
            /\ up[u].inserted_count <= tally[u].size

\* A returned count that holds a re-submission of identical content, from a
\* batch of which another write failed.
C14_ResubmissionWitness ==
    \E u \in Uploads :
        /\ Returned(u)
        /\ tally[u].updated > tally[u].material
        /\ tally[u].failed > 0
        /\ up[u].inserted_count > 0

\* C15: a failed write does not end insert_items: every record of the batch
\* gets its write and an answer, the keys written before stay stored, and the
\* function returns its count.
C15_FailureSkipsOneRecord ==
    \A u \in Uploads :
        /\ up[u].pc # "raised"
        /\ Returned(u) =>
              /\ tally[u].inserted + tally[u].updated + tally[u].same + tally[u].failed
                    = tally[u].size
              /\ \A k \in tally[u].keys : \E d \in store : NaturalKey(d) = k

\* A batch whose first write failed and whose later write was stored.
C15_FailureWitness ==
    \E u \in Uploads :
        /\ Returned(u)
        /\ tally[u].failed > 0
        /\ tally[u].late > 0
        /\ tally[u].keys # {}
        /\ up[u].inserted_count > 0

-----------------------------------------------------------------------------
(* upload_file with its temporary file, and the ways parsing ends           *)

\* What parse_production_sheet meets: a sheet no header row reads, a service
\* error, a refusal, or a parsed batch, which may be empty.
Responses ==
    {[kind |-> k, items |-> <<>>] : k \in {"unreadable", "api_error", "refusal"}}
        \cup {[kind |-> "parsed", items |-> b] : b \in CountBatches \cup {<<>>}}

\* As extract_outcome, for a parser that answered a refusal with no items.
extract_outcome_quiet(response) ==
    CASE response.kind = "unreadable" -> "ValueError"
      [] response.kind = "api_error" -> "Exception"
      [] OTHER -> "return"

\* parse_production_sheet: read_excel_flexible raises ValueError for a sheet
\* it cannot read; extract_production_items returns the items when
\* message.parsed is set, raises ValueError on a refusal, and lets the
\* client's exceptions through.
extract_outcome(response) ==
    CASE response.kind \in {"unreadable", "refusal"} -> "ValueError"
      [] response.kind = "api_error" -> "Exception"
      [] OTHER -> "return"

\* except ValueError: HTTP 422; except Exception: HTTP 500
handler_exit(exception) == IF exception = "ValueError" THEN "http_422" ELSE "http_500"

\* The states of a request whose handler is over.
ExitPcs == {"done", "no_items", "http_422", "http_500"}

Exit(pc, cause) == [pc |-> pc, cause |-> cause, items |-> <<>>, inserted_count |-> 0]

\* upload_file to `await file.read()`: NamedTemporaryFile(delete=False)
\* creates the file; temp_file_path is None.
UploadBegin(u) ==
    /\ up[u].pc = "idle"
    /\ up' = [up EXCEPT ![u] = [pc |-> "reading", items |-> <<>>, inserted_count |-> 0]]
    /\ files' = files \cup {u}
    /\ UNCHANGED <<today, clock, store, nextId, op, resp, item>>

\* file.read() or temp_file.write(contents) raises: except Exception answers
\* HTTP 500, and finally finds temp_file_path None and removes nothing.
UploadCopyFails(u, cause) ==
    /\ up[u].pc = "reading"
    /\ up' = [up EXCEPT ![u] = Exit(handler_exit("Exception"), cause)]
    /\ UNCHANGED <<today, clock, store, nextId, op, resp, item, files>>

\* The bytes are written, temp_file_path is set, and the sheet is parsed.
\* An exception or an empty list ends the handler, and finally removes the
\* file; a list of items goes to insert_items.
UploadParse(u, filename, response) ==
    /\ up[u].pc = "reading"
    /\ LET outcome == extract_outcome(response)
       IN  IF outcome # "return"
           THEN /\ up' = [up EXCEPT ![u] = Exit(handler_exit(outcome), response.kind)]
                /\ files' = files \ {u}
                /\ UNCHANGED <<today, clock, store, nextId, op, resp, item>>
           ELSE IF response.kind # "parsed" \/ response.items = <<>>
           THEN /\ up' = [up EXCEPT ![u] = Exit("no_items", response.kind)]
                /\ files' = files \ {u}
                /\ UNCHANGED <<today, clock, store, nextId, op, resp, item>>
           ELSE /\ ParseAndIssue(u, filename, response.items)
                /\ UNCHANGED files

\* insert_items goes on; when it returns the handler answers and finally
\* removes the file.
UploadResume(u) ==
    /\ Resume(u)
    /\ files' = IF up'[u].pc \in ExitPcs THEN files \ {u} ELSE files

NoUpload == UNCHANGED <<lastWrite, log, tally, listing, flt, xl>>

NextUpload ==
    \/ \E u \in Uploads : UploadBegin(u) /\ NoUpload
    \/ \E u \in Uploads, cause \in {"read_failed", "write_failed"} :
          UploadCopyFails(u, cause) /\ NoUpload
    \/ \E u \in Uploads, f \in Filenames, r \in Responses : UploadParse(u, f, r) /\ NoUpload
    \/ \E u \in Uploads : ServerMatch(u) /\ UNCHANGED files /\ NoUpload
    \/ \E u \in Uploads : ServerInsert(u) /\ UNCHANGED files /\ NoUpload
    \/ \E u \in Uploads : ServerDuplicate(u) /\ UNCHANGED files /\ NoUpload
    \/ \E u \in Uploads : UploadResume(u) /\ NoUpload

SpecUpload == Init /\ [][NextUpload]_vars

\* The handler of upload u is over, and ended unlike a stored batch.
Ended(u, cause) == up[u].pc \in ExitPcs \ {"done"} /\ up[u].cause = cause

\* C16: a request whose extraction the service refused ends in the validation
\* failure (HTTP 422), never in the answer for a sheet without items, and has
\* sent no write to the store.
C16_RefusalIsValidationFailure ==
    \A u \in Uploads :
        Ended(u, "refusal") => up[u].pc = "http_422" /\ op[u] = NoOp

\* A refused request, beside one whose sheet had no items and a filled store.
C16_RefusalWitness ==
    \E u, v \in Uploads :
        /\ Ended(u, "refusal")
        /\ up[v].pc = "no_items" \/ (up[v].pc = "done" /\ store # {})

\* C17: when the handler of an upload is over, however it ended, its
\* temporary file is no longer on disk.
C17_TempFileRemoved ==
    \A u \in Uploads : up[u].pc \in ExitPcs => u \notin files

-----------------------------------------------------------------------------
(* read_excel_flexible: which row is taken as the header                    *)

\* Widest sheet, in columns.
MaxWidth == 7

\* if valid_columns > 5
MinValidColumns == 5

\* for header_row in [0, 1, 2]
HeaderRows == <<0, 1, 2>>

\* header=None of the fallback read.
NoHeader == 0 - 1

\* A sheet: its width, and for each of its top rows (up to three of them) the
\* number of cells with text, which are its leftmost cells.
Sheets ==
    UNION {[width : {w}, rows : UNION {[1..n -> 0..w] : n \in 1..Len(HeaderRows)}] :
              w \in 1..MaxWidth}

\* pd.read_excel(file, header=h) raises for a header row the sheet does not have.
read_excel_raises(sheet, h) == h + 1 > Len(sheet.rows)

\* pd.read_excel(file, header=h): the column labels.  A blank header cell is
\* labelled "Unnamed: <column>".
read_excel(sheet, h) ==
    [c \in 1..sheet.width |-> IF c <= sheet.rows[h + 1] THEN "text" ELSE "Unnamed"]

\* df.columns.notna().sum(): the labels that are not NaN.
valid_columns(columns) == Cardinality({c \in DOMAIN columns : columns[c] # "NaN"})

\* The header row read_excel_flexible returns its frame with: the first of
\* HeaderRows whose read gives more than five valid columns, or the fallback.
RECURSIVE read_excel_from(_, _)
read_excel_from(sheet, k) ==
    IF k > Len(HeaderRows) THEN NoHeader
    ELSE IF /\ ~read_excel_raises(sheet, HeaderRows[k])
            /\ valid_columns(read_excel(sheet, HeaderRows[k])) > MinValidColumns
         THEN HeaderRows[k]
         ELSE read_excel_from(sheet, k + 1)

read_excel_flexible(sheet) == read_excel_from(sheet, 1)

ReadSheet(sheet) ==
    /\ xl = <<>>
    /\ xl' = [sheet |-> sheet, header_row |-> read_excel_flexible(sheet)]
    /\ UNCHANGED <<today, clock, store, nextId, up, op, lastWrite, log, resp, item,
                   files, tally, listing, flt>>

NextSheet ==
    /\ xl # <<>>
    /\ xl' = <<>>
    /\ UNCHANGED <<today, clock, store, nextId, up, op, lastWrite, log, resp, item,
                   files, tally, listing, flt>>

NextHeader ==
    \/ /\ xl = <<>>
       /\ \E sheet \in Sheets : ReadSheet(sheet)
    \/ NextSheet

SpecHeader == Init /\ [][NextHeader]_vars

\* The top rows of the sheet with more than five cells of text.
FullRows(sheet) ==
    {h \in 0..(Len(sheet.rows) - 1) : sheet.rows[h + 1] > MinValidColumns}

\* C18: the header row taken is the first of rows 0, 1, 2 with more than five
\* non-empty cells, so a sheet with only a title in row 0 and more than five
\* column names in row 1 is read with row 1 as its header; with no such row
\* the sheet is read without a header.
C18_FirstFullRowIsHeader ==
    xl # <<>> =>
        LET full == FullRows(xl.sheet)
        IN  xl.header_row = IF full = {} THEN NoHeader
                            ELSE CHOOSE h \in full : \A g \in full : h <= g

-----------------------------------------------------------------------------
(* Quantities, under SpecQuery *)

\* C19: the quantity of every item the pipeline has built and of every
\* stored document is an integer that is not negative.
C19_QuantityNotNegative ==
    /\ \A d \in store : d.quantity \in Nat
    /\ \A u \in Uploads :
          /\ \A i \in 1..Len(up[u].items) : up[u].items[i].quantity \in Nat
          /\ op[u].phase = "sent" => op[u].item_dict.quantity \in Nat

-----------------------------------------------------------------------------
(* ISO dates, under SpecStatus *)

\* C20: every YYYY-MM-DD date of the extraction record is read as that
\* calendar date: parse_date gives its year, month and day, derive_status
\* takes it as elapsed exactly when that date is today or earlier, and
\* format_date_iso returns the string as it was.
C20_IsoDateReadAsWritten ==
    item # <<>> =>
        \A f \in DateFields :
            LET s == resp.dates[f]
            IN  s.k = "iso" =>
                  /\ parse_date(s) = <<s.y, s.m, s.d>>
                  /\ f \in completed_stages(resp.dates) <=> DateLE(<<s.y, s.m, s.d>>, today)
                  /\ f \in future_stages(resp.dates) <=> ~DateLE(<<s.y, s.m, s.d>>, today)
                  /\ format_date_iso(s) = s

====
